---- MODULE Spec2Model ----
(***************************************************************************)
(* Model of the photoblog engine (package engine): post discovery over the *)
(* images root, Engine.ReadImage on one post folder, Engine.Render and the *)
(* Engine.Generate pipeline.                                               *)
(*                                                                         *)
(* Paths are sequences of path elements: filepath.Join appends an element, *)
(* filepath.Base is the last element.  Times are naturals, 0 is the zero   *)
(* time.Time.  Go slices are sequences; the Go index i is kept 0-based in  *)
(* the loop counters and element i is read as s[i + 1].                    *)
(***************************************************************************)
EXTENDS Integers, Sequences, FiniteSets, TLC

\* ---------------------------------------------------------------- bounds
MaxDirs == 3        \* entries met by the walk below the images root
MaxDepth == 2       \* depth of an entry below the images root
MaxPages == 1       \* configured site pages
MaxStatics == 1     \* configured static assets

\* ------------------------------------------------------------- constants
DiscoveryFileMeta == "meta.yml"
OutputFileIndex == "index.html"
ImageExtensions == {".jpg", ".jpeg", ".png", ".gif"}

ImagesPath == <<"images">>          \* Config.ImagesOrDefault()
OutputPath == <<"dist">>            \* Config.OutputOrDefault()
PostTemplatePath == <<"layout", "post.html">>   \* Config.Layout.PostOrDefault()

NoErr == "nil"

\* ------------------------------------------------------------ path tools
Join(path, name) == Append(path, name)
Base(path) == path[Len(path)]
Dir(path) == SubSeq(path, 1, Len(path) - 1)

\* the extension of a file name (everything from the last dot)
Ext(name) ==
    CASE name = "a.jpg" -> ".jpg"
      [] name = "z.png" -> ".png"
      [] name = "meta.yml" -> ".yml"
      [] name = "notes.txt" -> ".txt"
      [] OTHER -> ""

HasExtension(name, exts) == Ext(name) \in exts

\* ------------------------------------------------------------ post model
ZeroImage == [Width |-> 0, Height |-> 0]
ZeroMeta == [Posted |-> 0, Title |-> ""]
ZeroPost == [Original |-> <<>>, File |-> "", Image |-> ZeroImage, Meta |-> ZeroMeta]

ImageIsZero(img) == img.Width = 0 /\ img.Height = 0
TimeIsZero(t) == t = 0

\* what decoding the image file of that name yields
DecodedImage(name) ==
    IF name = "a.jpg" THEN [Width |-> 4, Height |-> 3] ELSE [Width |-> 16, Height |-> 9]

\* Slugify lower-cases and replaces what is not URL-safe
Slugify(s) == IF s = "Sunset" THEN "sunset" ELSE s

TitleOrDefault(post) ==
    IF post.Meta.Title # "" THEN post.Meta.Title ELSE Base(Dir(post.Original))

Slug(post) == Slugify(TitleOrDefault(post))

\* --------------------------------------------------- the files of a folder
\* A directory entry: name, modification time, whether its content is well
\* formed (an image that decodes, a metadata file that parses), and for a
\* metadata file the posted time and title it states (0 and "" when absent).
ImageA == [name |-> "a.jpg", modTime |-> 1, ok |-> TRUE, posted |-> 0, title |-> ""]
ImageABad == [name |-> "a.jpg", modTime |-> 1, ok |-> FALSE, posted |-> 0, title |-> ""]
ImageZ == [name |-> "z.png", modTime |-> 2, ok |-> TRUE, posted |-> 0, title |-> ""]
ImageZBad == [name |-> "z.png", modTime |-> 2, ok |-> FALSE, posted |-> 0, title |-> ""]
Notes == [name |-> "notes.txt", modTime |-> 3, ok |-> TRUE, posted |-> 0, title |-> ""]
MetaFile(posted, title, ok) ==
    [name |-> DiscoveryFileMeta, modTime |-> 4, ok |-> ok, posted |-> posted, title |-> title]

\* directory listings come back in lexical order of the names
NameOrder == <<"a.jpg", "meta.yml", "notes.txt", "z.png">>

AllFiles ==
    {ImageA, ImageABad, ImageZ, ImageZBad, Notes}
        \cup {MetaFile(p, t, TRUE) : p \in {0, 5}, t \in {"", "Sunset"}}
        \cup {MetaFile(0, "", FALSE)}

RECURSIVE ListingFrom(_, _)
ListingFrom(choice, k) ==
    IF k > Len(NameOrder) THEN <<>>
    ELSE IF choice[k] = {} THEN ListingFrom(choice, k + 1)
    ELSE <<CHOOSE f \in choice[k] : TRUE>> \o ListingFrom(choice, k + 1)

\* every listing with distinct names, drawn from a set of files
Listings(files) ==
    {ListingFrom(c, 1) :
        c \in {c \in [1..Len(NameOrder) -> {{}} \cup {{f} : f \in files}] :
                 \A k \in 1..Len(NameOrder) :
                    \A f \in c[k] : f.name = NameOrder[k]}}

\* ----------------------------------------------------------- ReadImage
ReadYAML(fi, meta) ==
    [Posted |-> IF fi.posted # 0 THEN fi.posted ELSE meta.Posted,
     Title |-> IF fi.title # "" THEN fi.title ELSE meta.Title]

\* the state of the loop over the files: the post being filled, the
\* modification time remembered, the error that ended it, the files decoded
ScanStart == [post |-> ZeroPost, modTime |-> 0, err |-> NoErr, decoded |-> <<>>]

ScanStep_AnyImage(path, fi, st) ==
    IF fi.name = DiscoveryFileMeta THEN
        IF fi.ok THEN [st EXCEPT !.post.Meta = ReadYAML(fi, st.post.Meta)]
        ELSE [st EXCEPT !.err = "yaml: cannot unmarshal"]
    ELSE IF HasExtension(fi.name, ImageExtensions) THEN
        LET s1 == [st EXCEPT !.post.Original = Join(path, fi.name),
                             !.post.File = fi.name,
                             !.modTime = fi.modTime,
                             !.decoded = Append(@, Join(path, fi.name))]
        IN  IF fi.ok THEN [s1 EXCEPT !.post.Image = DecodedImage(fi.name)]
            ELSE [s1 EXCEPT !.err = "image: unknown format"]
    ELSE st

\* one iteration of the loop over the files
ScanStep(path, fi, st) ==
    IF fi.name = DiscoveryFileMeta THEN
        IF fi.ok THEN [st EXCEPT !.post.Meta = ReadYAML(fi, st.post.Meta)]
        ELSE [st EXCEPT !.err = "yaml: cannot unmarshal"]
    ELSE IF HasExtension(fi.name, ImageExtensions) /\ ImageIsZero(st.post.Image) THEN
        LET s1 == [st EXCEPT !.post.Original = Join(path, fi.name),
                             !.post.File = fi.name,
                             !.modTime = fi.modTime,
                             !.decoded = Append(@, Join(path, fi.name))]
        IN  IF fi.ok THEN [s1 EXCEPT !.post.Image = DecodedImage(fi.name)]
            ELSE [s1 EXCEPT !.err = "image: unknown format"]
    ELSE st

RECURSIVE ScanFiles(_, _, _, _)
ScanFiles(path, files, k, st) ==
    IF k > Len(files) \/ st.err # NoErr THEN st
    ELSE ScanFiles(path, files, k + 1, ScanStep(path, files[k], st))

Failed(e, st) == [err |-> e, post |-> <<>>, decoded |-> st.decoded]

FinishRead_ModTimeWins(st) ==
    LET post == [st.post EXCEPT !.Meta.Posted = st.modTime]
    IN  IF st.err # NoErr THEN Failed(st.err, st)
        ELSE IF post.Original = <<>> THEN Failed("no images found", st)
        ELSE [err |-> NoErr, post |-> <<post>>, decoded |-> st.decoded]

FinishRead_NoImageCheck(st) ==
    LET post == IF TimeIsZero(st.post.Meta.Posted)
                THEN [st.post EXCEPT !.Meta.Posted = st.modTime]
                ELSE st.post
    IN  IF st.err # NoErr THEN Failed(st.err, st)
        ELSE [err |-> NoErr, post |-> <<post>>, decoded |-> st.decoded]

\* what follows the loop: the Posted default and the check for an image
FinishRead(st) ==
    LET post == IF TimeIsZero(st.post.Meta.Posted)
                THEN [st.post EXCEPT !.Meta.Posted = st.modTime]
                ELSE st.post
    IN  IF st.err # NoErr THEN Failed(st.err, st)
        ELSE IF post.Original = <<>> THEN Failed("no images found", st)
        ELSE [err |-> NoErr, post |-> <<post>>, decoded |-> st.decoded]

\* Engine.ReadImage on the entry found at path: the error, the post (a
\* sequence of no or one post, for the nil pointer) and the files decoded
ReadImage(path, entry) ==
    IF entry.kind = "missing" THEN Failed("stat: no such file or directory", ScanStart)
    ELSE IF entry.kind # "dir" THEN Failed("not a directory", ScanStart)
    ELSE IF ~entry.readable THEN Failed("open: permission denied", ScanStart)
    ELSE IF Len(entry.files) = 0 THEN Failed("no child files found", ScanStart)
    ELSE FinishRead(ScanFiles(path, entry.files, 1, ScanStart))

NoRead == [err |-> NoErr, post |-> <<>>, decoded |-> <<>>]

\* ------------------------------------------------------ the images root
\* The walk meets the entries below the images root in lexical pre-order;
\* tree lists them in that order.  An entry is a directory or a plain file,
\* depth 1 for a child of the root; a directory's files are its listing.
EntryNames == <<"d1", "d2", "d3", "d4", "d5">>

DirEntry(files, depth) == [kind |-> "dir", readable |-> TRUE, files |-> files, depth |-> depth]
FileEntry(depth) == [kind |-> "file", readable |-> TRUE, files |-> <<>>, depth |-> depth]

\* the folders the pipeline is run on: an empty one, one image, one image
\* with a metadata file that titles the post
WalkFolders == Listings({ImageA, MetaFile(5, "Sunset", TRUE)}) \ {<<MetaFile(5, "Sunset", TRUE)>>}

WalkEntries ==
    {DirEntry(f, d) : f \in WalkFolders, d \in 1..MaxDepth} \cup {FileEntry(d) : d \in 1..MaxDepth}

\* depths of a pre-order listing: the first entry is a child of the root,
\* and an entry is at most one level below a directory just before it
WellNested(t) ==
    \A i \in 1..Len(t) :
        /\ i = 1 => t[i].depth = 1
        /\ i > 1 => t[i].depth <= (IF t[i-1].kind = "dir" THEN t[i-1].depth + 1 ELSE t[i-1].depth)

Trees == {t \in UNION {[1..n -> WalkEntries] : n \in 0..MaxDirs} : WellNested(t)}

\* the directory an entry lies in: the nearest entry before it one level up
Parent(t, i) == CHOOSE j \in 1..(i-1) :
                    /\ t[j].depth = t[i].depth - 1
                    /\ \A k \in (j+1)..(i-1) : t[k].depth >= t[i].depth

RECURSIVE PathOf(_, _)
PathOf(t, i) ==
    IF t[i].depth = 1 THEN Join(ImagesPath, EntryNames[i])
    ELSE Join(PathOf(t, Parent(t, i)), EntryNames[i])

PageNames == <<<<"layout", "index.html">>, <<"layout", "about.html">>, <<"layout", "tags.html">>>>
StaticNames == <<<<"static", "css">>, <<"static", "js">>, <<"static", "img">>>>

\* ------------------------------------------------------ output directory
EmptyFS == <<>>
Put(fs, path, content) ==
    [p \in (DOMAIN fs) \cup {path} |-> IF p = path THEN content ELSE fs[p]]

IsDir(kind, dirs, d) == (d = OutputPath /\ kind = "dir") \/ d \in dirs

ViewModel(ps, post, previous, next) ==
    [Posts |-> ps, Post |-> post, Previous |-> previous, Next |-> next]

Rendered(tpl, data) == [kind |-> "rendered", tpl |-> tpl, data |-> data, src |-> <<>>]
Truncated(tpl, data) == [kind |-> "truncated", tpl |-> tpl, data |-> data, src |-> <<>>]
CopyOf(src) ==
    [kind |-> "copy", tpl |-> <<>>, data |-> ViewModel(<<>>, ZeroPost, ZeroPost, ZeroPost), src |-> src]

\* MakeDir (mkdir -p) of a path at or below the output path
MakeDir(kind, dirs, path, fault) ==
    IF kind = "file" THEN [err |-> "mkdir: not a directory", kind |-> kind, dirs |-> dirs]
    ELSE IF fault THEN [err |-> "mkdir: permission denied", kind |-> kind, dirs |-> dirs]
    ELSE [err |-> NoErr, kind |-> "dir",
          dirs |-> IF path = OutputPath THEN dirs ELSE dirs \cup {path}]

\* Engine.WriteTemplate: os.Create, then the template's Execute
WriteTemplate(kind, dirs, fs, tpl, outputPath, data, fault) ==
    IF ~IsDir(kind, dirs, Dir(outputPath)) \/ fault = "create"
    THEN [err |-> "open: cannot create", fs |-> fs]
    ELSE IF fault = "execute"
    THEN [err |-> "template: execute", fs |-> Put(fs, outputPath, Truncated(tpl, data))]
    ELSE [err |-> NoErr, fs |-> Put(fs, outputPath, Rendered(tpl, data))]

\* a static asset lands under the output path, by its base name
StaticDestination(staticPath, outputPath) == Join(outputPath, Base(staticPath))

\* Copy of a file to a destination path
Copy(kind, dirs, fs, src, dst, fault) ==
    IF ~IsDir(kind, dirs, Dir(dst)) \/ fault
    THEN [err |-> "copy: failed", fs |-> fs]
    ELSE [err |-> NoErr, fs |-> Put(fs, dst, CopyOf(src))]

ViewModelFor_OffByOne(ps, index) ==
    LET post == ps[index + 1]
        previous == IF index > 0 THEN ps[index] ELSE ZeroPost
        next == IF index < Len(ps) - 2 THEN ps[index + 2] ELSE ZeroPost
    IN  ViewModel(<<>>, post, previous, next)

\* the ViewModel of the post at index (0-based) of the sequence rendered
ViewModelFor(ps, index) ==
    LET post == ps[index + 1]
        previous == IF index > 0 THEN ps[index] ELSE ZeroPost
        next == IF index < Len(ps) - 1 THEN ps[index + 2] ELSE ZeroPost
    IN  ViewModel(<<>>, post, previous, next)

SlugPath(post) == Join(OutputPath, Slug(post))
IndexPath(post) == Join(SlugPath(post), OutputFileIndex)
ImagePath(post) == Join(SlugPath(post), Base(post.Original))
PagePath(pagePath) == Join(OutputPath, Base(pagePath))

\* ----------------------------------------------------------------- state
VARIABLES
    pc,          \* where Generate (or the single ReadImage call) stands
    rootOk,      \* the images root exists
    tree,        \* the entries below the images root, in walk order
    pages,       \* Config.Layout.Pages
    statics,     \* Config.Layout.StaticsOrDefault()
    outStart,    \* what the output path was when Generate began
    outKind,     \* the output path: "absent", "dir" or "file"
    outDirs,     \* directories below the output path
    outFS,       \* files below the output path: path -> content
    walkIdx,     \* entries the walk has gone past
    acc,         \* the posts slice of DiscoverPosts's closure
    lastRead,    \* what the latest ReadImage call returned
    posts,       \* what DiscoverPosts returned to Generate
    pageIdx,     \* loop index over the pages
    postIdx,     \* loop index over the posts
    staticIdx,   \* loop index over the statics
    views,       \* the ViewModels built for the posts, in order
    renderLog,   \* the file operations Render made for posts
    steps,       \* the steps Generate has begun, in order
    err,         \* the error Generate returns
    failedStep,  \* the step whose error that is
    failedOp     \* the operation in that step which failed

vars == <<pc, rootOk, tree, pages, statics, outStart, outKind, outDirs, outFS, walkIdx,
          acc, lastRead, posts, pageIdx, postIdx, staticIdx, views, renderLog, steps,
          err, failedStep, failedOp>>

config == <<rootOk, tree, pages, statics, outStart>>
output == <<outKind, outDirs, outFS>>
discovery == <<walkIdx, acc, lastRead, posts>>
rendering == <<pageIdx, postIdx, views, renderLog>>

StepOrder == <<"DiscoverPosts", "CreateOutputPath", "Render", "CopyStatics">>

Init ==
    /\ pc = "discover"
    /\ rootOk \in BOOLEAN
    /\ tree \in Trees
    /\ ~rootOk => tree = <<>>
    /\ pages \in {SubSeq(PageNames, 1, n) : n \in 0..MaxPages}
    /\ statics \in {SubSeq(StaticNames, 1, n) : n \in 0..MaxStatics}
    /\ outStart \in {"absent", "dir", "file"}
    /\ outKind = outStart
    /\ outDirs = {}
    /\ outFS = EmptyFS
    /\ walkIdx = 0
    /\ acc = <<>>
    /\ lastRead = NoRead
    /\ posts = <<>>
    /\ pageIdx = 0
    /\ postIdx = 0
    /\ staticIdx = 0
    /\ views = <<>>
    /\ renderLog = <<>>
    /\ steps = <<>>
    /\ err = NoErr
    /\ failedStep = ""
    /\ failedOp = ""

\* Generate returns the error e that operation op of a step gave
Return(step, e, op) ==
    /\ pc' = "done"
    /\ err' = e
    /\ failedStep' = step
    /\ failedOp' = op

Running == UNCHANGED <<err, failedStep, failedOp>>

\* --------------------------------------------------------- DiscoverPosts
\* the walk's first call of the callback, for the images root itself
WalkRoot ==
    /\ pc = "discover"
    /\ steps' = Append(steps, "DiscoverPosts")
    /\ IF ~rootOk
       THEN Return("DiscoverPosts", "lstat: no such file or directory", "Walk")
       ELSE pc' = "walk" /\ Running
    /\ UNCHANGED <<config, output, discovery, rendering, staticIdx>>

WalkEntry_KeepPosts ==
    /\ pc = "walk"
    /\ walkIdx < Len(tree)
    /\ LET entry == tree[walkIdx + 1]
           r == ReadImage(PathOf(tree, walkIdx + 1), entry)
       IN  IF entry.kind # "dir"
           THEN /\ walkIdx' = walkIdx + 1
                /\ UNCHANGED <<pc, acc, lastRead, posts, steps>>
                /\ Running
           ELSE /\ lastRead' = r
                /\ IF r.err # NoErr
                   THEN /\ posts' = acc
                        /\ UNCHANGED <<walkIdx, acc, steps>>
                        /\ Return("DiscoverPosts", r.err, "ReadImage")
                   ELSE /\ acc' = Append(acc, r.post[1])
                        /\ walkIdx' = walkIdx + 1
                        /\ UNCHANGED <<pc, posts, steps>>
                        /\ Running
    /\ UNCHANGED <<config, output, rendering, staticIdx>>

WalkEntry_GoOn ==
    /\ pc = "walk"
    /\ walkIdx < Len(tree)
    /\ LET entry == tree[walkIdx + 1]
           r == ReadImage(PathOf(tree, walkIdx + 1), entry)
       IN  IF entry.kind # "dir"
           THEN /\ walkIdx' = walkIdx + 1
                /\ UNCHANGED <<pc, acc, lastRead, posts, steps, err, failedStep, failedOp>>
           ELSE /\ lastRead' = r
                /\ walkIdx' = walkIdx + 1
                /\ UNCHANGED <<pc, posts, steps>>
                /\ IF r.err # NoErr
                   THEN /\ err' = r.err
                        /\ failedStep' = "DiscoverPosts"
                        /\ failedOp' = "ReadImage"
                        /\ acc' = acc
                   ELSE /\ acc' = Append(acc, r.post[1])
                        /\ Running
    /\ UNCHANGED <<config, output, rendering, staticIdx>>

\* the callback for the next entry of the walk; an error it returns ends
\* the walk, DiscoverPosts returns (nil, err) and Generate returns err
WalkEntry ==
    /\ pc = "walk"
    /\ walkIdx < Len(tree)
    /\ LET entry == tree[walkIdx + 1]
           r == ReadImage(PathOf(tree, walkIdx + 1), entry)
       IN  IF entry.kind # "dir"
           THEN /\ walkIdx' = walkIdx + 1
                /\ UNCHANGED <<pc, acc, lastRead, posts, steps>>
                /\ Running
           ELSE /\ lastRead' = r
                /\ IF r.err # NoErr
                   THEN /\ posts' = <<>>
                        /\ UNCHANGED <<walkIdx, acc, steps>>
                        /\ Return("DiscoverPosts", r.err, "ReadImage")
                   ELSE /\ acc' = Append(acc, r.post[1])
                        /\ walkIdx' = walkIdx + 1
                        /\ UNCHANGED <<pc, posts, steps>>
                        /\ Running
    /\ UNCHANGED <<config, output, rendering, staticIdx>>

\* the walk is over: DiscoverPosts returns (posts, nil)
WalkReturn ==
    /\ pc = "walk"
    /\ walkIdx = Len(tree)
    /\ posts' = acc
    /\ pc' = "prepare"
    /\ Running
    /\ UNCHANGED <<config, output, walkIdx, acc, lastRead, rendering, staticIdx, steps>>

\* ------------------------------------------------------ CreateOutputPath
\* os.Stat fails only for a path that does not exist; exception.New(nil)
\* is nil
CreateOutputPath ==
    /\ pc = "prepare"
    /\ steps' = Append(steps, "CreateOutputPath")
    /\ IF outKind = "absent"
       THEN \E fault \in BOOLEAN :
                LET md == MakeDir(outKind, outDirs, OutputPath, fault)
                IN  /\ outKind' = md.kind
                    /\ outDirs' = md.dirs
                    /\ IF md.err # NoErr
                       THEN Return("CreateOutputPath", md.err, "MakeDir")
                       ELSE pc' = "render" /\ Running
       ELSE /\ pc' = "render"
            /\ Running
            /\ UNCHANGED <<outKind, outDirs>>
    /\ UNCHANGED <<config, outFS, discovery, rendering, staticIdx>>

\* ---------------------------------------------------------------- Render
\* Render begins: ReadPartials
RenderStart ==
    /\ pc = "render"
    /\ steps' = Append(steps, "Render")
    /\ \E fault \in BOOLEAN :
        IF fault THEN Return("Render", "open: partial", "ReadPartials")
        ELSE pc' = "pages" /\ Running
    /\ UNCHANGED <<config, output, discovery, rendering, staticIdx>>

\* one iteration of the loop over the pages
RenderPage ==
    /\ pc = "pages"
    /\ pageIdx < Len(pages)
    /\ \E fault \in {"none", "compile", "create", "execute"} :
        LET pagePath == pages[pageIdx + 1]
            wt == WriteTemplate(outKind, outDirs, outFS, pagePath, PagePath(pagePath),
                                ViewModel(posts, ZeroPost, ZeroPost, ZeroPost), fault)
        IN  IF fault = "compile"
            THEN /\ Return("Render", "open: template", "CompileTemplate")
                 /\ UNCHANGED <<outFS, pageIdx>>
            ELSE /\ outFS' = wt.fs
                 /\ IF wt.err # NoErr
                    THEN Return("Render", wt.err, "WriteTemplate") /\ UNCHANGED pageIdx
                    ELSE pageIdx' = pageIdx + 1 /\ UNCHANGED pc /\ Running
    /\ UNCHANGED <<config, outKind, outDirs, discovery, postIdx, views, renderLog,
                   staticIdx, steps>>

\* the pages are done: the post template is compiled
CompilePostTemplate ==
    /\ pc = "pages"
    /\ pageIdx = Len(pages)
    /\ \E fault \in BOOLEAN :
        IF fault THEN Return("Render", "open: template", "CompileTemplate")
        ELSE pc' = "posts" /\ Running
    /\ UNCHANGED <<config, output, discovery, rendering, staticIdx, steps>>

RenderPost_GoOn ==
    /\ pc = "posts"
    /\ postIdx < Len(posts)
    /\ \E fault \in {"none", "mkdir", "create", "execute", "copy"} :
        LET post == posts[postIdx + 1]
            data == ViewModelFor(posts, postIdx)
            md == MakeDir(outKind, outDirs, SlugPath(post), fault = "mkdir")
            wt == WriteTemplate(md.kind, md.dirs, outFS, PostTemplatePath,
                                IndexPath(post), data, fault)
            cp == Copy(md.kind, md.dirs, wt.fs, post.Original, ImagePath(post),
                       fault = "copy")
        IN  /\ postIdx' = postIdx + 1
            /\ UNCHANGED pc
            /\ outKind' = md.kind
            /\ outDirs' = md.dirs
            /\ outFS' = cp.fs
            /\ views' = Append(views, data)
            /\ renderLog' = renderLog \o <<[op |-> "MakeDir", index |-> postIdx],
                                           [op |-> "WriteTemplate", index |-> postIdx],
                                           [op |-> "Copy", index |-> postIdx]>>
            /\ IF md.err # NoErr \/ wt.err # NoErr \/ cp.err # NoErr
               THEN /\ err' = "render: failed"
                    /\ failedStep' = "Render"
                    /\ failedOp' = "Copy"
               ELSE Running
    /\ UNCHANGED <<config, discovery, pageIdx, staticIdx, steps>>

\* one iteration of the loop over the posts
RenderPost ==
    /\ pc = "posts"
    /\ postIdx < Len(posts)
    /\ \E fault \in {"none", "mkdir", "create", "execute", "copy"} :
        LET post == posts[postIdx + 1]
            md == MakeDir(outKind, outDirs, SlugPath(post), fault = "mkdir")
            data == ViewModelFor(posts, postIdx)
            wt == WriteTemplate(md.kind, md.dirs, outFS, PostTemplatePath,
                                IndexPath(post), data, fault)
            cp == Copy(md.kind, md.dirs, wt.fs, post.Original, ImagePath(post),
                       fault = "copy")
            mkdir == [op |-> "MakeDir", index |-> postIdx]
            write == [op |-> "WriteTemplate", index |-> postIdx]
            copy == [op |-> "Copy", index |-> postIdx]
        IN  /\ outKind' = md.kind
            /\ outDirs' = md.dirs
            /\ IF md.err # NoErr
               THEN /\ Return("Render", md.err, "MakeDir")
                    /\ renderLog' = Append(renderLog, mkdir)
                    /\ UNCHANGED <<outFS, views, postIdx>>
               ELSE IF wt.err # NoErr
               THEN /\ Return("Render", wt.err, "WriteTemplate")
                    /\ outFS' = wt.fs
                    /\ views' = Append(views, data)
                    /\ renderLog' = renderLog \o <<mkdir, write>>
                    /\ UNCHANGED postIdx
               ELSE IF cp.err # NoErr
               THEN /\ Return("Render", cp.err, "Copy")
                    /\ outFS' = cp.fs
                    /\ views' = Append(views, data)
                    /\ renderLog' = renderLog \o <<mkdir, write, copy>>
                    /\ UNCHANGED postIdx
               ELSE /\ outFS' = cp.fs
                    /\ views' = Append(views, data)
                    /\ renderLog' = renderLog \o <<mkdir, write, copy>>
                    /\ postIdx' = postIdx + 1
                    /\ UNCHANGED pc
                    /\ Running
    /\ UNCHANGED <<config, discovery, pageIdx, staticIdx, steps>>

\* Render returns nil and Generate goes on to CopyStatics
RenderReturn ==
    /\ pc = "posts"
    /\ postIdx = Len(posts)
    /\ pc' = "statics"
    /\ steps' = Append(steps, "CopyStatics")
    /\ Running
    /\ UNCHANGED <<config, output, discovery, rendering, staticIdx>>

\* ----------------------------------------------------------- CopyStatics
\* one iteration of the loop over the statics
CopyStatic ==
    /\ pc = "statics"
    /\ staticIdx < Len(statics)
    /\ \E fault \in BOOLEAN :
        LET staticPath == statics[staticIdx + 1]
            cp == Copy(outKind, outDirs, outFS, staticPath,
                       StaticDestination(staticPath, OutputPath), fault)
        IN  /\ outFS' = cp.fs
            /\ IF cp.err # NoErr
               THEN Return("CopyStatics", cp.err, "Copy") /\ UNCHANGED staticIdx
               ELSE staticIdx' = staticIdx + 1 /\ UNCHANGED pc /\ Running
    /\ UNCHANGED <<config, outKind, outDirs, discovery, rendering, steps>>

\* CopyStatics returns nil and so does Generate
GenerateReturn ==
    /\ pc = "statics"
    /\ staticIdx = Len(statics)
    /\ pc' = "done"
    /\ Running
    /\ UNCHANGED <<config, output, discovery, rendering, staticIdx, steps>>

Next ==
    \/ WalkRoot
    \/ WalkEntry
    \/ WalkReturn
    \/ CreateOutputPath
    \/ RenderStart
    \/ RenderPage
    \/ CompilePostTemplate
    \/ RenderPost
    \/ RenderReturn
    \/ CopyStatic
    \/ GenerateReturn

Spec == Init /\ [][Next]_vars

\* ------------------------------------------------- ReadImage on its own
\* Engine.ReadImage is exported: a call of it on one path, which may be
\* missing, a plain file, a directory that cannot be listed, or a
\* directory with any listing of the files above.
ReadEntries ==
    {DirEntry(f, 1) : f \in Listings(AllFiles)}
        \cup {FileEntry(1),
              [kind |-> "missing", readable |-> TRUE, files |-> <<>>, depth |-> 1],
              [kind |-> "dir", readable |-> FALSE, files |-> <<>>, depth |-> 1]}

InitRead ==
    /\ pc = "read"
    /\ rootOk = TRUE
    /\ tree \in {<<e>> : e \in ReadEntries}
    /\ pages = <<>>
    /\ statics = <<>>
    /\ outStart = "absent"
    /\ outKind = outStart
    /\ outDirs = {}
    /\ outFS = EmptyFS
    /\ walkIdx = 0
    /\ acc = <<>>
    /\ lastRead = NoRead
    /\ posts = <<>>
    /\ pageIdx = 0
    /\ postIdx = 0
    /\ staticIdx = 0
    /\ views = <<>>
    /\ renderLog = <<>>
    /\ steps = <<>>
    /\ err = NoErr
    /\ failedStep = ""
    /\ failedOp = ""

ReadImageCall ==
    /\ pc = "read"
    /\ lastRead' = ReadImage(PathOf(tree, 1), tree[1])
    /\ pc' = "readDone"
    /\ UNCHANGED <<config, output, walkIdx, acc, posts, rendering, staticIdx, steps,
                   err, failedStep, failedOp>>

NextRead == ReadImageCall

SpecRead == InitRead /\ [][NextRead]_vars

\* ======================================================== the properties
IsPrefix(s, t) == Len(s) <= Len(t) /\ \A i \in 1..Len(s) : s[i] = t[i]

ReadFolder == tree[1]
ReadPath == PathOf(tree, 1)
IsImageFile(fi) == fi.name # DiscoveryFileMeta /\ Ext(fi.name) \in ImageExtensions
ImageIndexes(files) == {k \in 1..Len(files) : IsImageFile(files[k])}
MetaIndexes(files) == {k \in 1..Len(files) : files[k].name = DiscoveryFileMeta}
Listed == pc = "readDone" /\ ReadFolder.kind = "dir" /\ ReadFolder.readable
Accepted == Listed /\ lastRead.err = NoErr /\ Len(lastRead.post) = 1

\* C4: for every folder ReadImage accepts, Meta.Posted is the posted time
\* of the metadata file when the folder has one that states a non-zero
\* posted time, wherever it stands in the listing, and otherwise the
\* modification time of the image file that became the post's Original.
C4_PostedFromMetaElseModTime ==
    Accepted =>
        LET files == ReadFolder.files
            post == lastRead.post[1]
            stated == {k \in MetaIndexes(files) : files[k].posted # 0}
        IN  IF stated # {}
            THEN \A k \in stated : post.Meta.Posted = files[k].posted
            ELSE \E k \in 1..Len(files) :
                    /\ post.Original = Join(ReadPath, files[k].name)
                    /\ post.Meta.Posted = files[k].modTime

\* a metadata file listed after the image gave the post its posted time
C4_Witness ==
    /\ Accepted
    /\ \E k \in MetaIndexes(ReadFolder.files) :
        /\ ReadFolder.files[k].posted # 0
        /\ \E i \in ImageIndexes(ReadFolder.files) : i < k
        /\ lastRead.post[1].Meta.Posted = ReadFolder.files[k].posted
        /\ lastRead.post[1].Meta.Posted # ReadFolder.files[1].modTime

\* C6 as stated: a listed folder without files gives "no child files
\* found", a listed folder with files none of which has an image extension
\* gives "no images found", and in both cases no post is returned.
C6_NoFilesNoImagesAsStated ==
    Listed =>
        LET files == ReadFolder.files
        IN  /\ Len(files) = 0 =>
                lastRead.err = "no child files found" /\ lastRead.post = <<>>
            /\ (Len(files) > 0 /\ ImageIndexes(files) = {}) =>
                lastRead.err = "no images found" /\ lastRead.post = <<>>

\* C6, amended: a listed folder without files gives "no child files
\* found"; a listed folder with files none of which has an image extension
\* gives "no images found" when every metadata file in it parses, and the
\* parse error of the metadata file otherwise; no post is returned in any
\* of these cases.
C6_NoFilesNoImages ==
    Listed =>
        LET files == ReadFolder.files
            parses == \A k \in MetaIndexes(files) : files[k].ok
        IN  /\ Len(files) = 0 =>
                lastRead.err = "no child files found" /\ lastRead.post = <<>>
            /\ (Len(files) > 0 /\ ImageIndexes(files) = {}) =>
                /\ lastRead.post = <<>>
                /\ parses => lastRead.err = "no images found"
                /\ ~parses => lastRead.err = "yaml: cannot unmarshal"

\* a folder holding only a metadata file that parses was refused
C6_Witness ==
    /\ Listed
    /\ Len(ReadFolder.files) = 1
    /\ ReadFolder.files[1].name = DiscoveryFileMeta
    /\ ReadFolder.files[1].ok
    /\ lastRead.err = "no images found"
    /\ lastRead.post = <<>>

\* C7: in a folder ReadImage accepts, Original, File, Image and the
\* modification time used as the Posted default come from the first file
\* of the listing with an image extension, and no other file is decoded.
C7_FirstImageWins ==
    Accepted =>
        LET files == ReadFolder.files
            post == lastRead.post[1]
            imgs == ImageIndexes(files)
            first == CHOOSE k \in imgs : \A j \in imgs : k <= j
        IN  /\ imgs # {}
            /\ post.Original = Join(ReadPath, files[first].name)
            /\ post.File = files[first].name
            /\ post.Image = DecodedImage(files[first].name)
            /\ lastRead.decoded = <<Join(ReadPath, files[first].name)>>
            /\ (\A k \in MetaIndexes(files) : files[k].posted = 0) =>
                    post.Meta.Posted = files[first].modTime

\* a folder with two images was accepted
C7_Witness ==
    /\ Accepted
    /\ Cardinality(ImageIndexes(ReadFolder.files)) = 2
    /\ lastRead.post[1].File = "a.jpg"

\* ------------------------------------------------------------- Generate
Began(step) == \E k \in 1..Len(steps) : steps[k] = step
DiscoveryOver == Began("CreateOutputPath") \/ failedStep = "DiscoverPosts"
RenderSucceeded == Began("CopyStatics")

\* C1: Generate begins its steps in the order DiscoverPosts,
\* CreateOutputPath, Render, CopyStatics; once a step has failed Generate
\* has returned that step's error and no later step has begun; when
\* discovery fails the output path is as it was and nothing is written.
C1_StepsInOrderFailFast ==
    /\ IsPrefix(steps, StepOrder)
    /\ err # NoErr =>
        /\ pc = "done"
        /\ failedStep = steps[Len(steps)]
    /\ failedStep = "DiscoverPosts" =>
        /\ steps = <<"DiscoverPosts">>
        /\ outKind = outStart
        /\ outDirs = {}
        /\ outFS = EmptyFS

\* discovery failed after reading a post, and the output path is still absent
C1_Witness ==
    /\ pc = "done"
    /\ failedStep = "DiscoverPosts"
    /\ err = "no child files found"
    /\ Len(acc) > 0
    /\ outStart = "absent"
    /\ outKind = "absent"

\* C2: the ViewModel built for the post at index i of the sequence given to
\* Render has that post as Post, the post before it as Previous (the zero
\* Post for the first) and the post after it as Next (the zero Post for the
\* last).
C2_PreviousNextAreNeighbours ==
    \A j \in 1..Len(views) :
        /\ j <= Len(posts)
        /\ views[j].Post = posts[j]
        /\ views[j].Previous = (IF j > 1 THEN posts[j - 1] ELSE ZeroPost)
        /\ views[j].Next = (IF j < Len(posts) THEN posts[j + 1] ELSE ZeroPost)

\* three posts were rendered: a first, an interior and a last one
C2_Witness ==
    /\ Len(posts) = 3
    /\ Len(views) = 3
    /\ views[2].Previous = posts[1]
    /\ views[2].Next = posts[3]
    /\ views[1].Previous = ZeroPost
    /\ views[3].Next = ZeroPost

\* the discovery preconditions of a folder: it can be listed, every
\* metadata file in it parses, and its first image decodes
Acceptable(entry) ==
    /\ entry.kind = "dir"
    /\ entry.readable
    /\ \A k \in MetaIndexes(entry.files) : entry.files[k].ok
    /\ ImageIndexes(entry.files) # {}
    /\ \A k \in ImageIndexes(entry.files) :
        (\A j \in ImageIndexes(entry.files) : k <= j) => entry.files[k].ok

Indexes(t) == [i \in 1..Len(t) |-> i]
IsChildDir(i) == tree[i].depth = 1 /\ tree[i].kind = "dir"
ChildDirs == SelectSeq(Indexes(tree), IsChildDir)

\* C3 as stated: when every immediate child directory of the images root
\* satisfies the discovery preconditions, DiscoverPosts returns one post
\* per immediate child directory, in listing order, and nothing else.
C3_OnePostPerChildDirectory ==
    (DiscoveryOver /\ rootOk /\ \A k \in 1..Len(ChildDirs) : Acceptable(tree[ChildDirs[k]])) =>
        /\ failedStep # "DiscoverPosts"
        /\ Len(posts) = Len(ChildDirs)
        /\ \A k \in 1..Len(ChildDirs) :
            Dir(posts[k].Original) = PathOf(tree, ChildDirs[k])

\* C5 as stated: with an output path that exists and is not a directory
\* Generate fails in the output-directory step, so that Render never
\* begins; an absent output path is created; an output path that is a
\* directory is left as it is.
C5_OutputPathPrepared ==
    /\ outStart = "file" =>
        /\ ~Began("Render")
        /\ pc = "done" => err # NoErr
    /\ (outStart = "absent" /\ Began("Render")) => outKind = "dir"
    /\ outStart = "dir" => outKind = "dir"

\* C8 as stated: after Render has returned nil, every post of the sequence
\* has its own rendering at <output>/<slug>/index.html and a copy of its
\* own original image at <output>/<slug>/<base name of Original>.
C8_EveryPostHasItsPage ==
    RenderSucceeded =>
        \A j \in 1..Len(posts) :
            LET post == posts[j]
                previous == IF j > 1 THEN posts[j - 1] ELSE ZeroPost
                next == IF j < Len(posts) THEN posts[j + 1] ELSE ZeroPost
            IN  /\ IndexPath(post) \in DOMAIN outFS
                /\ outFS[IndexPath(post)] =
                      Rendered(PostTemplatePath, ViewModel(<<>>, post, previous, next))
                /\ ImagePath(post) \in DOMAIN outFS
                /\ outFS[ImagePath(post)] = CopyOf(post.Original)

\* C9: when reading a post folder fails the walk stops at that folder and
\* DiscoverPosts returns that error with a nil sequence: none of the posts
\* read from earlier folders is returned.
C9_DiscoveryFailsWithoutPosts ==
    failedStep = "DiscoverPosts" =>
        /\ pc = "done"
        /\ posts = <<>>
        /\ rootOk =>
            /\ walkIdx < Len(tree)
            /\ tree[walkIdx + 1].kind = "dir"
            /\ ~Acceptable(tree[walkIdx + 1])
            /\ lastRead.post = <<>>
            /\ err = lastRead.err
            /\ err # NoErr
            /\ Len(acc) = Cardinality({k \in 1..walkIdx : tree[k].kind = "dir"})

\* the second folder read failed after the first had given a post
C9_Witness ==
    /\ failedStep = "DiscoverPosts"
    /\ Len(acc) >= 1
    /\ walkIdx >= 1
    /\ walkIdx + 1 < Len(tree)
    /\ posts = <<>>

PostFailure ==
    /\ pc = "done"
    /\ failedStep = "Render"
    /\ pageIdx = Len(pages)
    /\ failedOp \in {"MakeDir", "WriteTemplate", "Copy"}

\* C10: when Render fails on the post at index i it returns at once: every
\* configured page is written, the index.html and the image copy of every
\* post before i are still there (with that post's own content unless a
\* later post up to i has the same slug), and Render has made no file
\* operation for a post after i, so that nothing exists under a slug that
\* only posts after i have.
C10_NoRollbackNoLaterPost ==
    PostFailure =>
        /\ postIdx < Len(posts)
        /\ \A k \in 1..Len(pages) :
            /\ PagePath(pages[k]) \in DOMAIN outFS
            /\ outFS[PagePath(pages[k])] =
                  Rendered(pages[k], ViewModel(posts, ZeroPost, ZeroPost, ZeroPost))
        /\ \A j \in 0..(postIdx - 1) :
            /\ SlugPath(posts[j + 1]) \in outDirs
            /\ IndexPath(posts[j + 1]) \in DOMAIN outFS
            /\ ImagePath(posts[j + 1]) \in DOMAIN outFS
            /\ \E k \in 1..Len(renderLog) : renderLog[k] = [op |-> "Copy", index |-> j]
            /\ (\A k \in (j + 1)..postIdx : Slug(posts[k + 1]) # Slug(posts[j + 1])) =>
                /\ outFS[IndexPath(posts[j + 1])].kind = "rendered"
                /\ outFS[IndexPath(posts[j + 1])].data.Post = posts[j + 1]
                /\ outFS[ImagePath(posts[j + 1])] = CopyOf(posts[j + 1].Original)
        /\ \A k \in 1..Len(renderLog) : renderLog[k].index <= postIdx
        /\ Len(views) <= postIdx + 1
        /\ \A j \in (postIdx + 1)..(Len(posts) - 1) :
            (\A k \in 0..postIdx : Slug(posts[k + 1]) # Slug(posts[j + 1])) =>
                /\ SlugPath(posts[j + 1]) \notin outDirs
                /\ IndexPath(posts[j + 1]) \notin DOMAIN outFS
                /\ ImagePath(posts[j + 1]) \notin DOMAIN outFS

\* of three posts the second failed in its image copy, after a page and
\* the first post were written
C10_Witness ==
    /\ PostFailure
    /\ failedOp = "Copy"
    /\ Len(posts) = 3
    /\ postIdx = 1
    /\ Len(pages) = 1
    /\ IndexPath(posts[1]) \in DOMAIN outFS
    /\ SlugPath(posts[3]) \notin outDirs
====
